---- MODULE Spec2Model ----
(***************************************************************************)
(* Model of devtools/projects/ng-devtools-backend/src/lib/                 *)
(* client-event-subscribers.ts: the event router of the in-page backend,   *)
(* its command handlers, the snapshot serializer and the timers it starts. *)
(* Collaborators that live in other files of the repository (the message   *)
(* bus, the directive forest hooks, the injector id registry, the profiler *)
(* capture, the component inspector) are modelled from their contracts.    *)
(***************************************************************************)
EXTENDS Integers, Sequences, FiniteSets, TLC

\* ------------------------------------------------------------------ bounds

\* debounceTime(250), client-event-subscribers.ts line 56
DebounceMs == 250
\* setTimeout(..., 500), client-event-subscribers.ts line 165
RetryMs == 500
\* The amounts of time (ms) by which the model's clock advances in one step.
Delays == {50, 100, 250}
\* The clock stops at MaxTime ms.
MaxTime == 500
\* At most MaxOut events are recorded on the outbound channel.
MaxOut == 4
\* At most MaxSignals change-detection signals are delivered by the host.
MaxSignals == 4
\* At most MaxProbes queryNgAvailability requests are received.
MaxProbes == 2
\* At most MaxFrames profiler frames are produced by the host.
MaxFrames == 3
\* A forest that the host application grows has at most MaxNodes nodes.
MaxNodes == 2

NoTimer == 0 - 1

\* ------------------------------------------------------------------ state

VARIABLES
  \* host application (version/mode probe of angular-check.ts)
  verDetectable, devMode, supported, ivy,
  \* message bus: bound command names, outbound events, channel released
  handlers, outbound, destroyed,
  \* router: subscribeToClientEvents has run; what the readiness branch installed
  subscribed, notifierInstalled, inspectorInstalled, hooksInitialized,
  \* the inspector is between inspectorStart and inspectorEnd
  inspecting,
  \* timers: the clock, the debounce deadline, the retry deadline of each probe
  now, debounceDue, probeDue,
  \* history: the readiness sampled by subscribeToClientEvents, the
  \* change-detection signals delivered, events emitted per probe, the last
  \* step taken
  readyAtSubscribe, signals, probeEmitted, last,
  \* host tree: hasDiDebugAPIs(), the live forest, and the forest as last
  \* indexed by the hooks
  diDebug, liveForest, indexedForest,
  \* identity registry: instance ids, idToInjector, injectorsSeen; the
  \* registry operations of the last snapshot; the injector ids sent so far
  directiveIds, idToInjector, injectorsSeen, regLog, handedOut,
  \* the forest as the last snapshot serialized it
  lastSerialized,
  \* profiler capture: recording, frames produced by the host, frames of the
  \* current session
  recording, frameCount, sessionFrames

hostVars == <<verDetectable, devMode, supported, ivy>>
busVars == <<handlers, outbound, destroyed>>
routerVars == <<subscribed, notifierInstalled, inspectorInstalled, hooksInitialized, inspecting>>
timerVars == <<now, debounceDue, probeDue>>
histVars == <<readyAtSubscribe, signals, probeEmitted, last>>

treeVars == <<diDebug, liveForest, indexedForest>>
registryVars == <<directiveIds, idToInjector, injectorsSeen, regLog, handedOut, lastSerialized>>
profilerVars == <<recording, frameCount, sessionFrames>>

vars == <<hostVars, busVars, routerVars, timerVars, histVars, treeVars, registryVars,
          profilerVars>>

\* ------------------------------------------------------------------ message bus

NoPayload == [empty |-> TRUE]

\* messageBus.emit(name, args): one more event on the channel, stamped with
\* the time of the call.
Event(name, payload) == [name |-> name, payload |-> payload, at |-> now]

Emit(out, name, payload) == Append(out, Event(name, payload))

\* The events a step appended to the channel.
Emitted(before, after) == SubSeq(after, Len(before) + 1, Len(after))

\* A step's record: the command or callback that ran, its argument, the
\* events it emitted and whether it ended by throwing.
Step(cmd, arg, out, failed) == [cmd |-> cmd, arg |-> arg, out |-> out, failed |-> failed]

\* The commands bound unconditionally, lines 24-46.
BaseCommands ==
  {"shutdown", "getLatestComponentExplorerView", "queryNgAvailability",
   "startProfiling", "stopProfiling", "setSelectedComponent",
   "getNestedProperties", "getRoutes", "updateState", "enableTimingAPI",
   "disableTimingAPI", "getInjectorProviders", "logProvider"}

\* The commands bound by setupInspector, lines 191-197.
InspectorCommands ==
  {"inspectorStart", "inspectorEnd", "createHighlightOverlay", "removeHighlightOverlay"}

\* The readiness condition of line 48.
Ready == devMode /\ supported /\ ivy

\* ------------------------------------------------------------------ router

\* A router that binds the inspector commands whatever the readiness.
SubscribedHandlersAll(ready) == BaseCommands \cup InspectorCommands

\* A router that binds only the probe and shutdown until the application is
\* ready.
SubscribedHandlersGated(ready) ==
  IF ready
    THEN BaseCommands \cup InspectorCommands
    ELSE {"queryNgAvailability", "shutdown"}

\* The handler set after subscribeToClientEvents, lines 24-59.
SubscribedHandlers(ready) ==
  IF ready THEN BaseCommands \cup InspectorCommands ELSE BaseCommands

\* subscribeToClientEvents(messageBus), lines 23-60.
Subscribe ==
  /\ ~subscribed
  /\ subscribed' = TRUE
  /\ handlers' = SubscribedHandlers(Ready)
  /\ inspectorInstalled' = Ready
  /\ inspecting' = inspecting
  /\ notifierInstalled' = Ready
  /\ hooksInitialized' = (hooksInitialized \/ Ready)
  /\ readyAtSubscribe' = Ready
  /\ last' = Step("subscribe", [ready |-> Ready], <<>>, FALSE)
  /\ UNCHANGED <<treeVars, registryVars, profilerVars, hostVars, outbound, destroyed, timerVars, signals, probeEmitted>>

\* shutdownCallback, lines 66-68: messageBus.destroy() and nothing else.
Shutdown ==
  /\ "shutdown" \in handlers
  /\ handlers' = {}
  /\ destroyed' = TRUE
  /\ last' = Step("shutdown", NoPayload, <<>>, FALSE)
  /\ UNCHANGED <<treeVars, registryVars, profilerVars, hostVars, outbound, routerVars, timerVars, readyAtSubscribe,
                 signals, probeEmitted>>

\* ------------------------------------------------------------------ host

\* The framework version becomes detectable (the application bootstraps and
\* getAngularVersion(), line 162, starts to return a version).
VersionAppears ==
  /\ ~verDetectable
  /\ verDetectable' = TRUE
  /\ UNCHANGED <<treeVars, registryVars, profilerVars, devMode, supported, ivy, busVars, routerVars, timerVars, histVars>>

\* One more of the three readiness conditions of lines 48 and 169 holds: the
\* application finishes bootstrapping after the backend was loaded.
HostBecomesReady ==
  /\ \E d \in {devMode, TRUE}, s \in {supported, TRUE}, i \in {ivy, TRUE} :
       /\ <<d, s, i>> # <<devMode, supported, ivy>>
       /\ devMode' = d
       /\ supported' = s
       /\ ivy' = i
  /\ UNCHANGED <<treeVars, registryVars, profilerVars, verDetectable, busVars, routerVars,
                 timerVars, histVars>>

\* ------------------------------------------------------------------ time

\* A timer that is set and due at time t.
Due(timer, t) == timer # NoTimer /\ timer = t

\* No pending timer is due before time t.
NoneDueBefore(t) ==
  /\ debounceDue = NoTimer \/ t <= debounceDue
  /\ \A r \in DOMAIN probeDue : probeDue[r] = NoTimer \/ t <= probeDue[r]

\* Time passes: d ms, and no timer's deadline is passed over.
Advance ==
  \E d \in Delays :
    /\ now + d <= MaxTime
    /\ NoneDueBefore(now + d)
    /\ now' = now + d
    /\ UNCHANGED <<treeVars, registryVars, profilerVars, hostVars, busVars, routerVars, debounceDue, probeDue, histVars>>

\* ------------------------------------------------------------------ change notifier

\* A throttle: a signal within a running window leaves the pending emission
\* where it is.
DebounceThrottle(due, t) == IF due = NoTimer THEN t + DebounceMs ELSE due

\* debounceTime(250), line 56, on a signal at time t: the pending emission
\* (if any) is dropped and a new one is scheduled 250 ms later.
DebounceOnSignal(due, t) == t + DebounceMs

\* The changeDetection$ of the hooks' profiler emits (a change-detection cycle
\* just ran); the hooks exist once initializeOrGetDirectiveForestHooks() has
\* been called. Only the subscription of lines 54-58 listens to it. The
\* history records the signal's time, how many events had been emitted before
\* it, and whether the subscription existed to hear it.
Signal ==
  /\ hooksInitialized
  /\ Len(signals) < MaxSignals
  /\ signals' = Append(signals, [at |-> now, seq |-> Len(outbound),
                                 heard |-> notifierInstalled])
  /\ debounceDue' = IF notifierInstalled
                      THEN DebounceOnSignal(debounceDue, now)
                      ELSE debounceDue
  /\ UNCHANGED <<treeVars, registryVars, profilerVars, hostVars, busVars, routerVars, now, probeDue, readyAtSubscribe,
                 probeEmitted, last>>

\* The debounce timer expires: the subscriber of line 57 emits.
DebounceFire ==
  /\ Due(debounceDue, now)
  /\ Len(outbound) < MaxOut
  /\ outbound' = Emit(outbound, "componentTreeDirty", NoPayload)
  /\ debounceDue' = NoTimer
  /\ last' = Step("changeDetection", NoPayload, Emitted(outbound, outbound'), FALSE)
  /\ UNCHANGED <<treeVars, registryVars, profilerVars, hostVars, handlers, destroyed, routerVars, now, probeDue,
                 readyAtSubscribe, signals, probeEmitted>>

\* ------------------------------------------------------------------ inspector

\* inspector.startInspecting, bound to inspectorStart at line 191.
InspectorStart ==
  /\ "inspectorStart" \in handlers
  /\ inspecting' = TRUE
  /\ last' = Step("inspectorStart", NoPayload, <<>>, FALSE)
  /\ UNCHANGED <<treeVars, registryVars, profilerVars, hostVars, busVars, subscribed,
                 notifierInstalled, inspectorInstalled, hooksInitialized, timerVars,
                 readyAtSubscribe, signals, probeEmitted>>

\* inspector.stopInspecting, bound to inspectorEnd at line 192.
InspectorEnd ==
  /\ "inspectorEnd" \in handlers
  /\ inspecting' = FALSE
  /\ last' = Step("inspectorEnd", NoPayload, <<>>, FALSE)
  /\ UNCHANGED <<treeVars, registryVars, profilerVars, hostVars, busVars, subscribed,
                 notifierInstalled, inspectorInstalled, hooksInitialized, timerVars,
                 readyAtSubscribe, signals, probeEmitted>>

\* The callbacks of lines 179-189: what each emits.
InspectorCallbacks ==
  {[name |-> "highlightComponent", payload |-> [id |-> 0]],
   [name |-> "removeComponentHighlight", payload |-> NoPayload],
   [name |-> "selectComponent", payload |-> [id |-> 0]]}

\* The pointer enters, leaves or selects a component while the inspector
\* that setupInspector created is inspecting: the callback emits.
InspectorCallback ==
  /\ inspectorInstalled
  /\ inspecting
  /\ Len(outbound) < MaxOut
  /\ \E event \in InspectorCallbacks :
       outbound' = Emit(outbound, event.name, event.payload)
  /\ last' = Step("inspectorCallback", NoPayload, Emitted(outbound, outbound'), FALSE)
  /\ UNCHANGED <<treeVars, registryVars, profilerVars, hostVars, handlers, destroyed,
                 routerVars, timerVars, readyAtSubscribe, signals, probeEmitted>>

\* ------------------------------------------------------------------ capability probe

\* A probe that keeps retrying until the application is ready.
CheckForAngularRetryAlways(ver, ready) ==
  [retry |-> ~ver \/ ~ready, emit |-> ver, initHooks |-> ver /\ ready]

\* checkForAngular, lines 161-176, as a decision: reschedule (lines 164-167),
\* initialize the hooks (lines 169-171), emit ngAvailability (lines 173-175).
CheckForAngular(ver, ready) ==
  [retry |-> ~ver, emit |-> ver, initHooks |-> ver /\ ready]

\* One run of checkForAngular for probe r of the probes pr (deadlines) and
\* pe (events emitted so far).
RunCheckForAngular(r, pr, pe, cmd) ==
  LET c == CheckForAngular(verDetectable, Ready)
      payload == [version |-> "detected", devMode |-> devMode, ivy |-> ivy]
  IN /\ Len(outbound) < MaxOut
     /\ outbound' = IF c.emit THEN Emit(outbound, "ngAvailability", payload) ELSE outbound
     /\ probeDue' = [pr EXCEPT ![r] = IF c.retry THEN now + RetryMs ELSE NoTimer]
     /\ probeEmitted' = [pe EXCEPT ![r] = @ + (IF c.emit THEN 1 ELSE 0)]
     /\ hooksInitialized' = (hooksInitialized \/ c.initHooks)
     /\ last' = Step(cmd, [probe |-> r, ver |-> verDetectable],
                      Emitted(outbound, outbound'), FALSE)

\* A request that joins the retry chain of an earlier request when one is
\* pending, instead of starting its own.
QueryNgAvailabilityDeduplicated ==
  /\ "queryNgAvailability" \in handlers
  /\ Len(probeDue) < MaxProbes
  /\ IF \E r \in DOMAIN probeDue : probeDue[r] # NoTimer
       THEN /\ probeDue' = Append(probeDue, NoTimer)
            /\ probeEmitted' = Append(probeEmitted, 0)
            /\ last' = Step("queryNgAvailability",
                             [probe |-> Len(probeDue) + 1, ver |-> verDetectable], <<>>, FALSE)
            /\ UNCHANGED <<outbound, hooksInitialized>>
       ELSE RunCheckForAngular(Len(probeDue) + 1, Append(probeDue, NoTimer),
                               Append(probeEmitted, 0), "queryNgAvailability")
  /\ UNCHANGED <<treeVars, registryVars, profilerVars, hostVars, handlers, destroyed, subscribed, notifierInstalled,
                 inspectorInstalled, inspecting, now, debounceDue, readyAtSubscribe, signals>>

\* checkForAngularCallback, lines 108-109: a queryNgAvailability command.
QueryNgAvailability ==
  /\ "queryNgAvailability" \in handlers
  /\ Len(probeDue) < MaxProbes
  /\ RunCheckForAngular(Len(probeDue) + 1, Append(probeDue, NoTimer),
                        Append(probeEmitted, 0), "queryNgAvailability")
  /\ UNCHANGED <<treeVars, registryVars, profilerVars, hostVars, handlers, destroyed, subscribed, notifierInstalled,
                 inspectorInstalled, inspecting, now, debounceDue, readyAtSubscribe, signals>>

\* The retry timer of line 165 expires: checkForAngular runs again.
ProbeRetry ==
  \E r \in DOMAIN probeDue :
    /\ Due(probeDue[r], now)
    /\ RunCheckForAngular(r, probeDue, probeEmitted, "probeRetry")
    /\ UNCHANGED <<treeVars, registryVars, profilerVars, hostVars, handlers, destroyed, subscribed, notifierInstalled,
                   inspectorInstalled, inspecting, now, debounceDue, readyAtSubscribe, signals>>

\* ------------------------------------------------------------------ host forest

\* An optional value is a sequence of length 0 or 1.
None == <<>>
Some(x) == <<x>>

\* A ComponentTreeNode of the host (interfaces.ts): element, optional
\* component, directives, children, and the element injector that
\* getInjectorFromElementNode(node.nativeElement) finds for it, if any.
Node(element, component, directives, injector, children) ==
  [element |-> element, component |-> component, directives |-> directives,
   nativeInjector |-> injector, children |-> children]

Component(name) == Some([name |-> name, isElement |-> FALSE, instance |-> name])
Directive(name) == [name |-> name, instance |-> name]

ForestEmpty == <<>>

ForestSingle == <<Node("app-root", Component("App"), <<>>, Some("ne1"), <<>>)>>

ForestWide ==
  <<Node("app-root", Component("App"), <<>>, Some("ne1"),
      <<Node("app-list", Component("List"), <<Directive("Tooltip")>>, Some("ne2"), <<>>),
        Node("div", None, <<>>, None,
          <<Node("app-item", Component("Item"), <<>>, Some("ne3"), <<>>)>>)>>)>>

\* The forests the host application moves between.
Forests == {ForestEmpty, ForestSingle, ForestWide}

\* ------------------------------------------------------------------ host injectors

ElementInjectors == {"ne1", "ne2", "ne3"}
EnvironmentInjectors == {"envLazy", "envAnon", "envRoot"}

\* isElementInjector(injector), line 249.
isElementInjector(injector) == injector \in ElementInjectors

\* The injector next consulted after inj; the root has none.
InjectorParent(inj) ==
  CASE inj = "ne1" -> Some("envRoot")
    [] inj = "ne2" -> Some("ne1")
    [] inj = "ne3" -> Some("envLazy")
    [] inj = "envLazy" -> Some("envAnon")
    [] inj = "envAnon" -> Some("envRoot")
    [] OTHER -> None

\* The injectors whose serialization is null (lines 247-257): either kind
\* of injector can be one.
Unnamed == {"envAnon", "ne3"}

RECURSIVE getInjectorResolutionPath(_)
\* getInjectorResolutionPath(injector), line 246: the chain from the injector
\* to the root, nearest first.
getInjectorResolutionPath(inj) ==
  IF InjectorParent(inj) = None
    THEN <<inj>>
    ELSE <<inj>> \o getInjectorResolutionPath(InjectorParent(inj)[1])

\* getInjectorProviders(injector), line 278: the provider records of an
\* injector, in registration order.
InjectorProviders(inj) ==
  CASE inj = "ne1" -> <<[token |-> "App", multi |-> FALSE]>>
    [] inj = "ne2" -> <<[token |-> "List", multi |-> FALSE],
                        [token |-> "Tooltip", multi |-> FALSE]>>
    [] inj = "ne3" -> <<>>
    [] inj = "envRoot" -> <<[token |-> "HttpClient", multi |-> FALSE],
                            [token |-> "APP_INITIALIZER", multi |-> TRUE]>>
    [] OTHER -> <<[token |-> "LazyService", multi |-> FALSE]>>

\* ------------------------------------------------------------------ forest lookup

RECURSIVE queryDirectiveForest(_, _)
\* queryDirectiveForest(position, forest), lines 122 and 130: the node at a
\* position (a path of child indices, counted from 0), if there is one.
queryDirectiveForest(position, forest) ==
  IF position = <<>> \/ Head(position) + 1 \notin DOMAIN forest
    THEN None
    ELSE IF Len(position) = 1
      THEN Some(forest[Head(position) + 1])
      ELSE queryDirectiveForest(Tail(position), forest[Head(position) + 1].children)

\* The element positions the panel asks about.
Positions == {<<0>>, <<0, 0>>, <<0, 1>>, <<1>>}

\* ------------------------------------------------------------------ identity registry

EmptyMap == [k \in {} |-> k]

Range(f) == {f[k] : k \in DOMAIN f}

\* The smallest non-negative integer that is not in use.
SmallestUnused(used) ==
  CHOOSE n \in 0..Cardinality(used) : n \notin used /\ \A m \in 0..(n - 1) : m \in used

\* The registry as the serializer threads it through a snapshot: the
\* instance ids of the hooks, idToInjector, injectorsSeen (line 14), and the
\* sequence of registry operations performed so far.
Registry(ids, toInjector, seen, log) ==
  [directiveIds |-> ids, idToInjector |-> toInjector, injectorsSeen |-> seen, log |-> log]

LogEntry(op, kind) == [op |-> op, kind |-> kind]

\* initializeOrGetDirectiveForestHooks().getDirectiveId(instance), lines 225
\* and 231: the instance's id, allocated at its first lookup.
getDirectiveId(reg, instance) ==
  IF instance \in DOMAIN reg.directiveIds
    THEN [id |-> reg.directiveIds[instance],
          reg |-> [reg EXCEPT !.log = Append(@, LogEntry("lookup", "directive"))]]
    ELSE LET id == SmallestUnused(Range(reg.directiveIds))
         IN [id |-> id,
             reg |-> [reg EXCEPT !.directiveIds = (instance :> id) @@ @,
                                 !.log = Append(@, LogEntry("alloc", "directive"))]]

\* The id of an injector: the existing one, or the smallest unused one,
\* recorded in idToInjector; either way the id is marked in injectorsSeen.
InjectorIdFor(reg, injector) ==
  IF injector \in Range(reg.idToInjector)
    THEN LET id == CHOOSE k \in DOMAIN reg.idToInjector : reg.idToInjector[k] = injector
         IN [id |-> id,
             reg |-> [reg EXCEPT !.injectorsSeen = @ \cup {id},
                                 !.log = Append(@, LogEntry("lookup", "injector"))]]
    ELSE LET id == SmallestUnused(DOMAIN reg.idToInjector)
         IN [id |-> id,
             reg |-> [reg EXCEPT !.idToInjector = (id :> injector) @@ @,
                                 !.injectorsSeen = @ \cup {id},
                                 !.log = Append(@, LogEntry("alloc", "injector"))]]

\* A SerializedInjector {id, name, type}, or null for an injector without a
\* derivable name; the id is assigned before the name is derived.
SerializeInjectorAs(reg, injector, type) ==
  LET r == InjectorIdFor(reg, injector)
  IN [reg |-> r.reg,
      out |-> IF injector \in Unnamed
                THEN None
                ELSE Some([id |-> r.id, name |-> injector, type |-> type])]

\* serializeElementInjectorWithId(injector), line 250.
serializeElementInjectorWithId(reg, injector) ==
  SerializeInjectorAs(reg, injector, "element")

\* serializeEnvironmentInjectorWithId(injector), line 252.
serializeEnvironmentInjectorWithId(reg, injector) ==
  SerializeInjectorAs(reg, injector, "environment")

\* ------------------------------------------------------------------ snapshot serializer

RECURSIVE SerializeDirectives(_, _)
\* node.directives.map(...), lines 228-232.
SerializeDirectives(reg, directives) ==
  IF directives = <<>>
    THEN [reg |-> reg, out |-> <<>>]
    ELSE LET d == Head(directives)
             r == getDirectiveId(reg, d.instance)
             rest == SerializeDirectives(r.reg, Tail(directives))
         IN [reg |-> rest.reg, out |-> <<[name |-> d.name, id |-> r.id]>> \o rest.out]

\* The component descriptor of lines 222-227.
SerializeComponent(reg, component) ==
  IF component = None
    THEN [reg |-> reg, out |-> None]
    ELSE LET c == component[1]
             r == getDirectiveId(reg, c.instance)
         IN [reg |-> r.reg,
             out |-> Some([name |-> c.name, isElement |-> c.isElement, id |-> r.id])]

RECURSIVE SerializeResolutionPath(_, _)

\* A loop that stops at the first injector whose serialization is null.
SerializeResolutionPathAborting(reg, chain) ==
  IF chain = <<>>
    THEN [reg |-> reg, out |-> <<>>]
    ELSE LET injector == Head(chain)
             r == IF isElementInjector(injector)
                    THEN serializeElementInjectorWithId(reg, injector)
                    ELSE serializeEnvironmentInjectorWithId(reg, injector)
             rest == SerializeResolutionPath(r.reg, Tail(chain))
         IN IF r.out = None
              THEN [reg |-> r.reg, out |-> <<>>]
              ELSE [reg |-> rest.reg, out |-> r.out \o rest.out]

\* The loop of lines 246-260 over the resolution chain: an injector whose
\* serialization is null is skipped.
SerializeResolutionPath(reg, chain) ==
  IF chain = <<>>
    THEN [reg |-> reg, out |-> <<>>]
    ELSE LET injector == Head(chain)
             r == IF isElementInjector(injector)
                    THEN serializeElementInjectorWithId(reg, injector)
                    ELSE serializeEnvironmentInjectorWithId(reg, injector)
             rest == SerializeResolutionPath(r.reg, Tail(chain))
         IN [reg |-> rest.reg, out |-> r.out \o rest.out]

\* A path that leaves the owning injector out and starts at its parent.
NodeResolutionPathFromParent(reg, node) ==
  IF node.nativeInjector = None
    THEN [reg |-> reg, out |-> <<>>]
    ELSE SerializeResolutionPath(reg, Tail(getInjectorResolutionPath(node.nativeInjector[1])))

\* Lines 236-263 for one node: no path without an element injector,
\* otherwise the serialized chain.
NodeResolutionPath(reg, node) ==
  IF node.nativeInjector = None
    THEN [reg |-> reg, out |-> <<>>]
    ELSE SerializeResolutionPath(reg, getInjectorResolutionPath(node.nativeInjector[1]))

\* body(v) with v evaluated first: the serializer's intermediate results are
\* values, as the code's local constants are.
With(v, body(_)) == CHOOSE y \in {body(x) : x \in {v}} : TRUE

\* The SerializableComponentTreeNode of lines 220-234 and 262.
SerializedNode(node, component, directives, children, resolutionPath, includeResolutionPath) ==
  IF includeResolutionPath
    THEN [element |-> node.element, component |-> component, directives |-> directives,
          children |-> children, resolutionPath |-> resolutionPath]
    ELSE [element |-> node.element, component |-> component, directives |-> directives,
          children |-> children]

RECURSIVE prepareForestForSerialization(_, _, _)

\* Lines 219-265, one pass of the loop and the passes after it. A node's ids
\* are taken in the order of the code: component, directives, the
\* children's subtrees, and then the node's own resolution path.
SerializeRoots(reg, roots, includeResolutionPath) ==
  With(Head(roots), LAMBDA node :
  With(SerializeComponent(reg, node.component), LAMBDA c :
  With(SerializeDirectives(c.reg, node.directives), LAMBDA d :
  With(prepareForestForSerialization(d.reg, node.children, includeResolutionPath),
       LAMBDA ch :
  With(IF includeResolutionPath
         THEN NodeResolutionPath(ch.reg, node)
         ELSE [reg |-> ch.reg, out |-> <<>>], LAMBDA rp :
  With(prepareForestForSerialization(rp.reg, Tail(roots), includeResolutionPath),
       LAMBDA rest :
    [reg |-> rest.reg,
     out |-> <<SerializedNode(node, c.out, d.out, ch.out, rp.out,
                              includeResolutionPath)>> \o rest.out]))))))

\* A serializer whose early exit for a node without an injector leaves the
\* loop pass before the node is pushed.
prepareForestDroppingOrphans(reg, roots, includeResolutionPath) ==
  IF roots = <<>>
    THEN [reg |-> reg, out |-> <<>>]
    ELSE IF includeResolutionPath /\ Head(roots).nativeInjector = None
      THEN prepareForestForSerialization(reg, Tail(roots), includeResolutionPath)
      ELSE SerializeRoots(reg, roots, includeResolutionPath)

\* prepareForestForSerialization(roots, includeResolutionPath), lines 216-269.
prepareForestForSerialization(reg, roots, includeResolutionPath) ==
  IF roots = <<>>
    THEN [reg |-> reg, out |-> <<>>]
    ELSE SerializeRoots(reg, roots, includeResolutionPath)

\* A cleanup that deletes the unseen ids and leaves the seen-set as it is.
CleanupInjectorIdsKeepSeen(reg) ==
  [reg EXCEPT !.idToInjector = [k \in DOMAIN @ \cap reg.injectorsSeen |-> @[k]],
              !.log = Append(@, LogEntry("gc", "injector"))]

\* A cleanup that empties the map instead of keeping what was seen.
CleanupInjectorIdsAll(reg) ==
  [reg EXCEPT !.idToInjector = EmptyMap,
              !.injectorsSeen = {},
              !.log = Append(@, LogEntry("gc", "injector"))]

\* The cleanup of lines 83-89: every id that was not seen is deleted from
\* idToInjector, and injectorsSeen is cleared.
CleanupInjectorIds(reg) ==
  [reg EXCEPT !.idToInjector = [k \in DOMAIN @ \cap reg.injectorsSeen |-> @[k]],
              !.injectorsSeen = {},
              !.log = Append(@, LogEntry("gc", "injector"))]

\* ------------------------------------------------------------------ property walk

\* The state of the live instances: the paths that lead to an object and the
\* paths that lead to a primitive value (a string, a number).
ObjectPaths(instance) ==
  CASE instance = "App" -> {<<>>, <<"user">>}
    [] instance = "List" -> {<<>>, <<"items">>}
    [] OTHER -> {<<>>}

PrimitivePaths(instance) ==
  CASE instance = "App" -> {<<"title">>, <<"user", "name">>}
    [] OTHER -> {}

Object(instance, path) == [kind |-> "object", instance |-> instance, path |-> path]
Primitive == [kind |-> "primitive", instance |-> "", path |-> <<>>]
Undefined == [kind |-> "undefined", instance |-> "", path |-> <<>>]

\* data[prop], line 142: reading a property of undefined throws a TypeError,
\* a primitive has none of the properties asked for.
ReadProperty(data, prop) ==
  CASE data.kind = "undefined" -> [threw |-> TRUE, data |-> Undefined]
    [] data.kind = "primitive" -> [threw |-> FALSE, data |-> Undefined]
    [] OTHER ->
         LET path == Append(data.path, prop)
         IN [threw |-> FALSE,
             data |-> IF path \in ObjectPaths(data.instance)
                        THEN Object(data.instance, path)
                        ELSE IF path \in PrimitivePaths(data.instance)
                          THEN Primitive
                          ELSE Undefined]

RECURSIVE WalkPropPath(_, _, _)
\* The loop of lines 141-146: a falsy value is reported on the console and
\* the loop goes on.
WalkPropPath(data, propPath, reads) ==
  IF propPath = <<>>
    THEN [threw |-> FALSE, data |-> data, reads |-> reads]
    ELSE LET r == ReadProperty(data, Head(propPath))
         IN IF r.threw
              THEN [threw |-> TRUE, data |-> r.data, reads |-> reads + 1]
              ELSE WalkPropPath(r.data, Tail(propPath), reads + 1)

\* serializeDirectiveState(data), line 147, reduced to the keys it
\* describes: those of an object, none for a value without keys.
serializeDirectiveState(data) ==
  IF data.kind = "object"
    THEN {p[Len(p)] : p \in {q \in ObjectPaths(data.instance) \cup PrimitivePaths(data.instance) :
                               Len(q) = Len(data.path) + 1
                               /\ SubSeq(q, 1, Len(data.path)) = data.path}}
    ELSE {}

\* The property paths the panel asks about.
PropPaths ==
  {<<"title">>, <<"user">>, <<"user", "zip">>, <<"zip", "name">>, <<"title", "name">>}

\* The directive indices the panel asks about (none: the component).
DirectiveIndices == {None, Some(0)}

Out(name, payload) == [name |-> name, payload |-> payload]

EmptyProps(position, propPath) ==
  Out("nestedProperties", [position |-> position, props |-> {}, propPath |-> propPath])

\* Line 136: the component of the node, or the directive at the index, if
\* there is one.
CurrentOf(node, position) ==
  IF position.directive = None
    THEN node.component
    ELSE IF position.directive[1] + 1 \in DOMAIN node.directives
      THEN Some(node.directives[position.directive[1] + 1])
      ELSE None

\* Lines 140-148: the walk from the instance and the event that reports it;
\* a TypeError in the walk ends the handler before the emit.
WalkAndEmit(instance, position, propPath) ==
  LET w == WalkPropPath(Object(instance, <<>>), propPath, 0)
  IN IF w.threw
       THEN [events |-> <<>>, failed |-> TRUE, reads |-> w.reads]
       ELSE [events |-> <<Out("nestedProperties",
                              [position |-> position,
                               props |-> serializeDirectiveState(w.data),
                               propPath |-> propPath])>>,
             failed |-> FALSE, reads |-> w.reads]

\* The handler without the check of lines 137-139: current.instance of an
\* absent component or directive is a TypeError.
getNestedPropertiesUnchecked(forest, position, propPath) ==
  LET node == queryDirectiveForest(position.element, forest)
  IN IF node = None
       THEN [events |-> <<EmptyProps(position, propPath)>>, failed |-> FALSE, reads |-> 0]
       ELSE LET current == CurrentOf(node[1], position)
            IN IF current = None
                 THEN [events |-> <<>>, failed |-> TRUE, reads |-> 0]
                 ELSE WalkAndEmit(current[1].instance, position, propPath)

\* getNestedPropertiesCallback, lines 127-149: the events emitted, whether
\* the handler threw, and how many properties it read.
getNestedPropertiesCallback(forest, position, propPath) ==
  LET node == queryDirectiveForest(position.element, forest)
      emitEmpty == [events |-> <<EmptyProps(position, propPath)>>, failed |-> FALSE,
                    reads |-> 0]
  IN IF node = None
       THEN emitEmpty
       ELSE LET current == CurrentOf(node[1], position)
            IN IF current = None
                 THEN emitEmpty
                 ELSE WalkAndEmit(current[1].instance, position, propPath)

\* ------------------------------------------------------------------ tree handlers

\* The events of a handler, stamped and appended to the channel.
EmitAll(out, events) ==
  out \o [i \in 1..Len(events) |-> Event(events[i].name, events[i].payload)]

\* The transport has delivered every event emitted so far to the panel. The
\* tree commands are taken one at a time, each after the answer to the one
\* before has left the channel.
ChannelIdle == outbound = <<>>

\* The transport delivers the oldest event to the panel.
Deliver ==
  /\ outbound # <<>>
  /\ outbound' = Tail(outbound)
  /\ UNCHANGED <<hostVars, handlers, destroyed, routerVars, timerVars, histVars,
                 treeVars, registryVars, profilerVars>>

\* The host application renders: its forest changes.
HostMutate ==
  /\ \E f \in Forests \ {liveForest} : liveForest' = f
  /\ UNCHANGED <<hostVars, busVars, routerVars, timerVars, histVars, diDebug,
                 indexedForest, registryVars, profilerVars>>

RECURSIVE NodeCount(_)
NodeCount(forest) ==
  IF forest = <<>>
    THEN 0
    ELSE 1 + NodeCount(Head(forest).children) + NodeCount(Tail(forest))

RECURSIVE NodePositions(_)
\* The positions of the nodes of a forest (paths of child indices from 0).
NodePositions(forest) ==
  UNION {{<<i - 1>>} \cup {<<i - 1>> \o p : p \in NodePositions(forest[i].children)} :
         i \in DOMAIN forest}

RECURSIVE AppendChild(_, _, _)
\* The forest with one more node, as the last child of the node at a
\* position (as the last root for the empty position).
AppendChild(forest, position, node) ==
  IF position = <<>>
    THEN Append(forest, node)
    ELSE [forest EXCEPT ![Head(position) + 1].children =
                          AppendChild(@, Tail(position), node)]

\* The nodes the host renders: a component whose injector serializes, a
\* component whose injector does not, and a plain element, which has neither
\* component nor injector. The component instance is told apart by the
\* place of its node.
RenderedNodes(at) ==
  {Node("app-list", Component(at), <<>>, Some("ne2"), <<>>),
   Node("app-item", Component(at), <<>>, Some("ne3"), <<>>),
   Node("div", None, <<>>, None, <<>>)}

\* The host application renders one more node.
HostGrow ==
  /\ NodeCount(liveForest) < MaxNodes
  /\ \E parent \in {<<>>} \cup NodePositions(liveForest) :
       LET siblings == IF parent = <<>> THEN liveForest
                       ELSE queryDirectiveForest(parent, liveForest)[1].children
       IN \E node \in RenderedNodes(Append(parent, Len(siblings))) :
            liveForest' = AppendChild(liveForest, parent, node)
  /\ UNCHANGED <<hostVars, busVars, routerVars, timerVars, histVars, diDebug,
                 indexedForest, registryVars, profilerVars>>

\* Hooks that answer with the forest they computed the last time.
indexForestCached(live, indexed) == indexed

\* indexForest(), line 75: the hooks recompute the forest from the host.
indexForest(live, indexed) == live

\* getLatestComponentState(query, forest), line 100: the properties of the
\* directives of the queried node, or nothing when the node is not there.
getLatestComponentState(query, forest) ==
  LET node == queryDirectiveForest(query.selectedElement, forest)
  IN IF node = None
       THEN None
       ELSE LET instances ==
                  {node[1].directives[i].instance : i \in DOMAIN node[1].directives}
                    \cup {node[1].component[i].instance : i \in DOMAIN node[1].component}
            IN Some([directiveProperties |->
                       [d \in instances |-> serializeDirectiveState(Object(d, <<>>))]])

\* A snapshot that runs the cleanup first and serializes afterwards.
SnapshotForestGcFirst(reg, forest, hasDiDebugAPIs) ==
  With(prepareForestForSerialization(IF hasDiDebugAPIs THEN CleanupInjectorIds(reg) ELSE reg,
                                     forest, hasDiDebugAPIs), LAMBDA ser :
    [forest |-> ser.out, serialized |-> ser.reg, reg |-> ser.reg])

\* Lines 77-93 of getLatestComponentExplorerViewCallback: the serialized
\* forest, the registry as serialization left it, and the registry after
\* the cleanup that follows when the DI debug APIs are there.
SnapshotForest(reg, forest, hasDiDebugAPIs) ==
  With(prepareForestForSerialization(reg, forest, hasDiDebugAPIs), LAMBDA ser :
    [forest |-> ser.out,
     serialized |-> ser.reg,
     reg |-> IF hasDiDebugAPIs THEN CleanupInjectorIds(ser.reg) ELSE ser.reg])

\* An answer that is sent whether or not the queried node was found.
SnapshotEventsAlways(serializedForest, forest, query) ==
  IF query = None
    THEN <<Out("latestComponentExplorerView", [forest |-> serializedForest])>>
    ELSE LET state == getLatestComponentState(query[1], forest)
         IN <<Out("latestComponentExplorerView",
                  [forest |-> serializedForest,
                   properties |-> IF state # None THEN state[1].directiveProperties
                                  ELSE EmptyMap])>>

\* Lines 95-105: the answer to the command, for the serialized forest.
SnapshotEvents(serializedForest, forest, query) ==
  IF query = None
    THEN <<Out("latestComponentExplorerView", [forest |-> serializedForest])>>
    ELSE LET state == getLatestComponentState(query[1], forest)
         IN IF state # None
              THEN <<Out("latestComponentExplorerView",
                         [forest |-> serializedForest,
                          properties |-> state[1].directiveProperties])>>
              ELSE <<>>

RECURSIVE InjectorIdsIn(_)
\* The injector ids that a serialized forest carries in its resolution paths.
InjectorIdsIn(forest) ==
  IF forest = <<>>
    THEN {}
    ELSE LET n == Head(forest)
         IN (IF "resolutionPath" \in DOMAIN n
               THEN {n.resolutionPath[i].id : i \in DOMAIN n.resolutionPath}
               ELSE {})
              \cup InjectorIdsIn(n.children) \cup InjectorIdsIn(Tail(forest))

\* The queries of getLatestComponentExplorerView (none, or a selected element).
Queries == {None} \cup {Some([selectedElement |-> p]) : p \in {<<0>>, <<1>>}}

\* A getLatestComponentExplorerView command: getLatestComponentExplorerViewCallback,
\* lines 70-106.
GetLatestComponentExplorerView ==
  LET fresh == indexForest(liveForest, indexedForest)
      snap == SnapshotForest(Registry(directiveIds, idToInjector, injectorsSeen, <<>>),
                             fresh, diDebug)
  IN \E query \in Queries :
       LET events == SnapshotEvents(snap.forest, fresh, query)
       IN /\ "getLatestComponentExplorerView" \in handlers
          /\ ChannelIdle
          /\ indexedForest' = fresh
          /\ hooksInitialized' = TRUE
          /\ directiveIds' = snap.reg.directiveIds
          /\ idToInjector' = snap.reg.idToInjector
          /\ injectorsSeen' = snap.reg.injectorsSeen
          /\ regLog' = snap.reg.log
          /\ outbound' = EmitAll(outbound, events)
          /\ lastSerialized' = snap.forest
          /\ handedOut' = IF events = <<>> THEN handedOut
                          ELSE handedOut \cup InjectorIdsIn(snap.forest)
          /\ last' = Step("getLatestComponentExplorerView",
                          [query |-> query, seen |-> snap.serialized.injectorsSeen],
                          Emitted(outbound, outbound'), FALSE)
          /\ UNCHANGED <<hostVars, handlers, destroyed, subscribed, notifierInstalled,
                         inspectorInstalled, inspecting, timerVars, readyAtSubscribe, signals,
                         probeEmitted, diDebug, liveForest, profilerVars>>

\* A getNestedProperties command.
GetNestedProperties ==
  \E element \in Positions, directive \in DirectiveIndices, propPath \in PropPaths :
    LET pos == [element |-> element, directive |-> directive]
        r == getNestedPropertiesCallback(indexedForest, pos, propPath)
    IN /\ "getNestedProperties" \in handlers
       /\ ChannelIdle
       /\ hooksInitialized' = TRUE
       /\ outbound' = EmitAll(outbound, r.events)
       /\ last' = Step("getNestedProperties",
                       [position |-> pos, propPath |-> propPath, reads |-> r.reads],
                       Emitted(outbound, outbound'), r.failed)
       /\ UNCHANGED <<hostVars, handlers, destroyed, subscribed, notifierInstalled,
                      inspectorInstalled, inspecting, timerVars, readyAtSubscribe, signals,
                      probeEmitted, treeVars, registryVars, profilerVars>>

\* ------------------------------------------------------------------ injector providers

\* serializeProviderRecord(providerRecord, isEnvironmentScope), lines 283 and
\* 287, for the record at an index: only an environment-scoped record may
\* stand for several provider slots.
serializeProviderRecord(providerRecord, index, isEnvironment) ==
  [token |-> providerRecord.token, index |-> index,
   multi |-> isEnvironment /\ providerRecord.multi]

\* The ids the panel asks about.
MaxQueryId == 3

\* The SerializedInjector arguments the panel sends.
SerializedInjectors ==
  {[id |-> i, type |-> t, name |-> "injector"] :
     i \in 0..MaxQueryId, t \in {"element", "environment"}}

\* A handler that answers an unknown id with an empty provider list.
getInjectorProvidersLenient(toInjector, injector) ==
  LET providerRecords == IF injector.id \in DOMAIN toInjector
                           THEN InjectorProviders(toInjector[injector.id])
                           ELSE <<>>
  IN <<Out("latestInjectorProviders",
           [injector |-> injector,
            providers |-> [i \in DOMAIN providerRecords |->
                             serializeProviderRecord(providerRecords[i], i - 1,
                                                     injector.type = "environment")]])>>

\* getInjectorProvidersCallback, lines 272-292: the events emitted.
getInjectorProvidersCallback(toInjector, injector) ==
  IF injector.id \notin DOMAIN toInjector
    THEN <<>>
    ELSE LET providerRecords == InjectorProviders(toInjector[injector.id])
             serializedProviderRecords ==
               [i \in DOMAIN providerRecords |->
                  serializeProviderRecord(providerRecords[i], i - 1,
                                          injector.type = "environment")]
         IN <<Out("latestInjectorProviders",
                  [injector |-> injector, providers |-> serializedProviderRecords])>>

\* A getInjectorProviders command that also marks the id it was asked about
\* as seen, which keeps it from the next cleanup.
GetInjectorProvidersMarking ==
  \E injector \in SerializedInjectors :
    /\ "getInjectorProviders" \in handlers
    /\ ChannelIdle
    /\ outbound' = EmitAll(outbound, getInjectorProvidersCallback(idToInjector, injector))
    /\ injectorsSeen' = injectorsSeen \cup {injector.id}
    /\ last' = Step("getInjectorProviders", [injector |-> injector],
                    Emitted(outbound, outbound'), FALSE)
    /\ UNCHANGED <<hostVars, handlers, destroyed, routerVars, timerVars,
                   readyAtSubscribe, signals, probeEmitted, treeVars, profilerVars,
                   directiveIds, idToInjector, regLog, handedOut, lastSerialized>>

\* A getInjectorProviders command.
GetInjectorProviders ==
  \E injector \in SerializedInjectors :
    /\ "getInjectorProviders" \in handlers
    /\ ChannelIdle
    /\ outbound' = EmitAll(outbound, getInjectorProvidersCallback(idToInjector, injector))
    /\ last' = Step("getInjectorProviders", [injector |-> injector],
                    Emitted(outbound, outbound'), FALSE)
    /\ UNCHANGED <<hostVars, handlers, destroyed, routerVars, timerVars,
                   readyAtSubscribe, signals, probeEmitted, treeVars, registryVars,
                   profilerVars>>

\* ------------------------------------------------------------------ side-channel commands

\* A handler that also announces the selection on the channel.
selectedComponentAnnounced(forest, position) ==
  [events |-> <<Out("selectComponent", [position |-> position])>>,
   reference |-> Some([node |-> queryDirectiveForest(position, forest),
                       position |-> position])]

\* selectedComponentCallback, lines 121-125: the node at the position, found
\* or not, goes to setConsoleReference; nothing is emitted.
selectedComponentCallback(forest, position) ==
  [events |-> <<>>,
   reference |-> Some([node |-> queryDirectiveForest(position, forest),
                       position |-> position])]

\* A setSelectedComponent command.
SetSelectedComponent ==
  \E position \in Positions :
    LET r == selectedComponentCallback(indexedForest, position)
    IN /\ "setSelectedComponent" \in handlers
       /\ ChannelIdle
       /\ hooksInitialized' = TRUE
       /\ outbound' = EmitAll(outbound, r.events)
       /\ last' = Step("setSelectedComponent",
                       [position |-> position, reference |-> r.reference],
                       Emitted(outbound, outbound'), FALSE)
       /\ UNCHANGED <<hostVars, handlers, destroyed, subscribed, notifierInstalled,
                      inspectorInstalled, inspecting, timerVars, readyAtSubscribe, signals,
                      probeEmitted, treeVars, registryVars, profilerVars>>

\* getRoutes, lines 156-159: an empty router tree.
getRoutes == <<Out("updateRouterTree", [routes |-> <<>>])>>

\* A getRoutes command: getRoutesCallback, line 110.
GetRoutes ==
  /\ "getRoutes" \in handlers
  /\ ChannelIdle
  /\ outbound' = EmitAll(outbound, getRoutes)
  /\ last' = Step("getRoutes", NoPayload, Emitted(outbound, outbound'), FALSE)
  /\ UNCHANGED <<hostVars, handlers, destroyed, routerVars, timerVars,
                 readyAtSubscribe, signals, probeEmitted, treeVars, registryVars,
                 profilerVars>>

\* The index of a SerializedProviderRecord: one number, or a list of numbers
\* for a record that stands for several provider slots.
NumberIndex(n) == [isNumber |-> TRUE, at |-> <<n>>]
ListIndex(list) == [isNumber |-> FALSE, at |-> list]

\* The provider indices the panel sends.
ProviderIndices == {NumberIndex(0), NumberIndex(2), ListIndex(<<1, 0>>), ListIndex(<<>>)}

\* logProvider, lines 294-332: what is written to the console, and whether
\* the handler threw. An unknown id writes nothing (lines 297-299); the token
\* of a provider record that is not there is a TypeError (lines 318 and 326),
\* thrown after the injector was logged. Nothing is emitted.
logProvider(toInjector, serializedInjector, serializedProvider) ==
  IF serializedInjector.id \notin DOMAIN toInjector
    THEN [logged |-> None, failed |-> FALSE]
    ELSE LET injector == toInjector[serializedInjector.id]
             providerRecords == InjectorProviders(injector)
             first == IF serializedProvider.at = <<>> THEN 0 - 1
                      ELSE serializedProvider.at[1]
             found == first + 1 \in DOMAIN providerRecords
         IN [logged |-> Some([injector |-> injector,
                              token |-> IF found THEN Some(providerRecords[first + 1].token)
                                        ELSE None]),
             failed |-> ~found]

\* A logProvider command.
LogProvider ==
  \E serializedInjector \in SerializedInjectors, serializedProvider \in ProviderIndices :
    LET r == logProvider(idToInjector, serializedInjector, serializedProvider)
    IN /\ "logProvider" \in handlers
       /\ ChannelIdle
       /\ last' = Step("logProvider",
                       [injector |-> serializedInjector, provider |-> serializedProvider,
                        logged |-> r.logged],
                       <<>>, r.failed)
       /\ UNCHANGED <<hostVars, busVars, routerVars, timerVars, readyAtSubscribe,
                      signals, probeEmitted, treeVars, registryVars, profilerVars>>

\* ------------------------------------------------------------------ profiler capture

\* startProfilingCallback, lines 112-115: start(onFrame) of hooks/capture
\* takes the capture from Idle to Recording with the callback installed; a
\* start while Recording leaves the session as it is.
StartProfiling ==
  /\ "startProfiling" \in handlers
  /\ recording' = TRUE
  /\ sessionFrames' = IF recording THEN sessionFrames ELSE <<>>
  /\ last' = Step("startProfiling", [recording |-> recording], <<>>, FALSE)
  /\ UNCHANGED <<hostVars, busVars, routerVars, timerVars, readyAtSubscribe, signals,
                 probeEmitted, treeVars, registryVars, frameCount>>

\* A callback that keeps the frame for the final result instead of sending it.
OnFrameBuffered(frame) == <<>>

\* The callback of lines 113-115 for one frame: the events emitted.
OnFrame(frame) == <<Out("sendProfilerChunk", [frame |-> frame])>>

\* The host completes an instrumented cycle: one frame, handed to the
\* callback of the session if there is one.
HostFrame ==
  /\ frameCount < MaxFrames
  /\ Len(outbound) < MaxOut
  /\ frameCount' = frameCount + 1
  /\ outbound' = IF recording THEN EmitAll(outbound, OnFrame(frameCount')) ELSE outbound
  /\ sessionFrames' = IF recording THEN Append(sessionFrames, frameCount') ELSE sessionFrames
  /\ last' = Step("frame", [frame |-> frameCount', recording |-> recording],
                  Emitted(outbound, outbound'), FALSE)
  /\ UNCHANGED <<hostVars, handlers, destroyed, routerVars, timerVars,
                 readyAtSubscribe, signals, probeEmitted, treeVars, registryVars,
                 recording>>

\* stopProfilingCallback, lines 117-119: the events emitted for the
\* aggregate that stop() returns.
stopProfilingCallback(result) == <<Out("profilerResults", [frames |-> result])>>

\* A stopProfiling command: stop() returns the aggregate of the frames seen
\* since start and takes the capture back to Idle.
StopProfiling ==
  /\ "stopProfiling" \in handlers
  /\ Len(outbound) < MaxOut
  /\ outbound' = EmitAll(outbound, stopProfilingCallback(sessionFrames))
  /\ recording' = FALSE
  /\ sessionFrames' = <<>>
  /\ last' = Step("stopProfiling", [recording |-> recording],
                  Emitted(outbound, outbound'), FALSE)
  /\ UNCHANGED <<hostVars, handlers, destroyed, routerVars, timerVars,
                 readyAtSubscribe, signals, probeEmitted, treeVars, registryVars,
                 frameCount>>

\* ------------------------------------------------------------------ Init

Init ==
  /\ verDetectable \in BOOLEAN
  /\ devMode \in BOOLEAN
  /\ supported \in BOOLEAN
  /\ ivy \in BOOLEAN
  /\ handlers = {}
  /\ outbound = <<>>
  /\ destroyed = FALSE
  /\ subscribed = FALSE
  /\ notifierInstalled = FALSE
  /\ inspectorInstalled = FALSE
  /\ inspecting = FALSE
  /\ hooksInitialized = FALSE
  /\ now = 0
  /\ debounceDue = NoTimer
  /\ probeDue = <<>>
  /\ readyAtSubscribe = FALSE
  /\ signals = <<>>
  /\ probeEmitted = <<>>
  /\ last = Step("init", NoPayload, <<>>, FALSE)
  /\ diDebug \in BOOLEAN
  /\ liveForest \in Forests
  /\ indexedForest = <<>>
  /\ directiveIds = EmptyMap
  /\ idToInjector = EmptyMap
  /\ injectorsSeen = {}
  /\ regLog = <<>>
  /\ handedOut = {}
  /\ lastSerialized = <<>>
  /\ recording = FALSE
  /\ frameCount = 0
  /\ sessionFrames = <<>>

\* ------------------------------------------------------------------ specifications

NextNotifier ==
  \/ Subscribe
  \/ Shutdown
  \/ Signal
  \/ DebounceFire
  \/ Advance

\* The change notifier alone: the version probe plays no part in it.
InitNotifier == Init /\ verDetectable /\ diDebug /\ liveForest = ForestEmpty

SpecNotifier == InitNotifier /\ [][NextNotifier]_vars

NextProbe ==
  \/ Subscribe
  \/ Shutdown
  \/ VersionAppears
  \/ QueryNgAvailability
  \/ ProbeRetry
  \/ Advance

\* The capability probe alone: the host tree plays no part in it.
InitProbe == Init /\ diDebug /\ liveForest = ForestEmpty

SpecProbe == InitProbe /\ [][NextProbe]_vars

\* The retry timer of line 165 fires when it is due, and time passes.
SpecProbeFair == SpecProbe /\ WF_vars(ProbeRetry) /\ WF_vars(Advance)

NextProfiler ==
  \/ Subscribe
  \/ Shutdown
  \/ StartProfiling
  \/ HostFrame
  \/ StopProfiling

\* The profiler session alone.
InitProfiler == Init /\ verDetectable /\ diDebug /\ liveForest = ForestEmpty

SpecProfiler == InitProfiler /\ [][NextProfiler]_vars

NextTree ==
  \/ Subscribe
  \/ Shutdown
  \/ HostMutate
  \/ GetLatestComponentExplorerView
  \/ GetInjectorProviders
  \/ Deliver

\* The snapshot and injector commands, answered one at a time.
InitTree == Init /\ verDetectable /\ supported /\ ivy

SpecTree == InitTree /\ [][NextTree]_vars

NextNested ==
  \/ Subscribe
  \/ HostMutate
  \/ GetLatestComponentExplorerView
  \/ GetNestedProperties
  \/ Deliver

\* The property walk against the forest as last indexed; the injector
\* registry plays no part in it.
InitNested == Init /\ verDetectable /\ Ready /\ ~diDebug

SpecNested == InitNested /\ [][NextNested]_vars

NextShape ==
  \/ Subscribe
  \/ HostGrow
  \/ GetLatestComponentExplorerView
  \/ Deliver

\* The snapshot of a forest that grows node by node from nothing.
InitShape == Init /\ verDetectable /\ Ready /\ liveForest = ForestEmpty

SpecShape == InitShape /\ [][NextShape]_vars

\* The environment of the inspector specification: the first change-detection
\* signal, the first availability request, and a clock that moves by one
\* debounce window at a time.
FirstSignal == Signal /\ signals = <<>>

FirstQuery == QueryNgAvailability /\ probeDue = <<>>

WindowPasses == Advance /\ now' = now + DebounceMs

NextInspector ==
  \/ Subscribe
  \/ HostBecomesReady
  \/ FirstQuery
  \/ FirstSignal
  \/ DebounceFire
  \/ WindowPasses
  \/ InspectorStart
  \/ InspectorEnd
  \/ InspectorCallback

\* What the readiness test installs, for an application that may become
\* ready before or after the backend subscribes.
InitInspector == Init /\ verDetectable /\ ~diDebug /\ liveForest = ForestEmpty

SpecInspector == InitInspector /\ [][NextInspector]_vars

NextCommands ==
  \/ Subscribe
  \/ Shutdown
  \/ GetLatestComponentExplorerView
  \/ QueryNgAvailability
  \/ StartProfiling
  \/ HostFrame
  \/ StopProfiling
  \/ SetSelectedComponent
  \/ GetNestedProperties
  \/ GetRoutes
  \/ GetInjectorProviders
  \/ LogProvider

\* Every command of the table against one application: ready, its version
\* detectable, its forest the wide one.
InitCommands ==
  Init /\ verDetectable /\ Ready /\ diDebug /\ liveForest = ForestWide

SpecCommands == InitCommands /\ [][NextCommands]_vars

\* ------------------------------------------------------------------ C1

IsDirty(k) == outbound[k].name = "componentTreeDirty"

\* The componentTreeDirty events emitted after signal j and before signal j + 1.
DirtyAfter(j) ==
  {k \in 1..Len(outbound) :
     /\ IsDirty(k)
     /\ k > signals[j].seq
     /\ j < Len(signals) => k <= signals[j + 1].seq}

\* The time up to which signal j has been the most recent signal.
WindowEnd(j) == IF j < Len(signals) THEN signals[j + 1].at ELSE now

\* C1: with the change notifier subscribed, componentTreeDirty is emitted
\* exactly when 250 ms have passed since the most recent change-detection
\* signal: every such event follows a heard signal by exactly 250 ms with no
\* signal in between, a signal followed by another one within the window
\* yields no event, and a signal followed by more than 250 ms of silence has
\* yielded exactly one.
C1_DebounceLaw ==
  /\ \A k \in 1..Len(outbound) :
       IsDirty(k) => \E j \in DOMAIN signals : signals[j].heard /\ k \in DirtyAfter(j)
  /\ \A j \in DOMAIN signals :
       signals[j].heard =>
         /\ \A k \in DirtyAfter(j) : outbound[k].at = signals[j].at + DebounceMs
         /\ Cardinality(DirtyAfter(j)) <= 1
         /\ WindowEnd(j) < signals[j].at + DebounceMs => DirtyAfter(j) = {}
         /\ WindowEnd(j) > signals[j].at + DebounceMs => Cardinality(DirtyAfter(j)) = 1

\* The burst of the debounce law: signals at 0, 50, 100 and 200 ms, all heard,
\* then silence past 450 ms, and one event, at 450 ms.
C1_Witness ==
  /\ Len(signals) = 4
  /\ [j \in 1..4 |-> signals[j].at] = <<0, 50, 100, 200>>
  /\ \A j \in 1..4 : signals[j].heard
  /\ now > 450
  /\ Len(outbound) = 1
  /\ IsDirty(1)
  /\ outbound[1].at = 450

\* ------------------------------------------------------------------ C2

\* C2: once the shutdown command has been handled, no event is emitted.
C2_ShutdownTerminal == [][destroyed => outbound' = outbound]_vars

\* ------------------------------------------------------------------ C3

\* C3 as stated: subscribed with a readiness condition false, the only
\* commands bound are the capability probe and shutdown.
C3_ReadinessGate ==
  (subscribed /\ ~destroyed /\ ~readyAtSubscribe)
    => handlers \subseteq {"queryNgAvailability", "shutdown"}

\* C3, amended: subscribed with a readiness condition false, every command of
\* the table of lines 24-46 has its handler bound until shutdown; what the
\* readiness condition withholds is the inspector commands and the change
\* notifier.
C3_BaseHandlersBound ==
  (subscribed /\ ~destroyed /\ ~readyAtSubscribe)
    => /\ handlers = BaseCommands
       /\ ~inspectorInstalled
       /\ ~notifierInstalled

\* A profiler frame streamed by an application that was not ready at
\* subscribe time: startProfiling had its handler and its effect.
C3_Witness ==
  /\ subscribed
  /\ ~readyAtSubscribe
  /\ last.cmd = "frame"
  /\ Len(last.out) = 1
  /\ last.out[1].name = "sendProfilerChunk"

\* ------------------------------------------------------------------ C4

\* A probe has emitted at most once, has a pending retry exactly while it has
\* not emitted, and its retry is due within 500 ms.
ProbeInv ==
  \A r \in DOMAIN probeDue :
    /\ probeEmitted[r] \in {0, 1}
    /\ probeEmitted[r] = 1 <=> probeDue[r] = NoTimer
    /\ probeDue[r] # NoTimer => now <= probeDue[r] /\ probeDue[r] <= now + RetryMs

\* checkForAngular ran for probe r in this step.
ProbeRan(r) ==
  IF r \in DOMAIN probeDue
    THEN probeDue'[r] # probeDue[r] \/ probeEmitted'[r] # probeEmitted[r]
    ELSE TRUE

\* A run of checkForAngular with the version undetectable emits nothing and
\* schedules the next run 500 ms later; a run with the version detectable
\* emits one ngAvailability and schedules nothing.
ProbeStep ==
  \A r \in DOMAIN probeDue' :
    ProbeRan(r) =>
      IF verDetectable
        THEN /\ Len(outbound') = Len(outbound) + 1
             /\ outbound'[Len(outbound')].name = "ngAvailability"
             /\ probeEmitted'[r] = 1
             /\ probeDue'[r] = NoTimer
        ELSE /\ outbound' = outbound
             /\ probeEmitted'[r] = 0
             /\ probeDue'[r] = now + RetryMs

\* Probe r waits for a retry that falls within the modelled time.
ProbeWaiting(r) ==
  IF r \in DOMAIN probeDue
    THEN probeDue[r] # NoTimer /\ probeDue[r] <= MaxTime
    ELSE FALSE

ProbeReported(r) == IF r \in DOMAIN probeDue THEN probeEmitted[r] = 1 ELSE FALSE

\* A waiting probe emits once the version is detectable.
ProbeLive ==
  \A r \in 1..MaxProbes : (verDetectable /\ ProbeWaiting(r)) ~> ProbeReported(r)

\* C4: a queryNgAvailability request emits nothing and reschedules itself
\* every 500 ms while the version is undetectable, emits exactly one
\* ngAvailability at the first attempt that detects the version, whatever the
\* other readiness conditions are, schedules nothing after that, and does
\* emit once the version has become detectable.
C4_CapabilityProbe == []ProbeInv /\ [][ProbeStep]_vars /\ ProbeLive

\* A probe that found no version at first, retried, and reported at the retry
\* although the application is not ready.
C4_Witness ==
  /\ last.cmd = "probeRetry"
  /\ Len(last.out) = 1
  /\ last.out[1].at = RetryMs
  /\ probeEmitted[last.arg.probe] = 1
  /\ probeDue[last.arg.probe] = NoTimer
  /\ ~Ready

\* ------------------------------------------------------------------ C5

SnapshotTaken == last.cmd = "getLatestComponentExplorerView"

RECURSIVE Elements(_)
\* The elements of a forest, live or serialized, in their tree shape.
Elements(forest) ==
  [i \in DOMAIN forest |-> <<forest[i].element, Elements(forest[i].children)>>]

\* The queried element of the last snapshot command resolves to a node.
QueryResolves ==
  queryDirectiveForest(last.arg.query[1].selectedElement, indexedForest) # None

\* The last step emitted exactly one latestComponentExplorerView whose payload
\* has the given fields and carries the indexed forest.
OneViewWith(fields) ==
  /\ Len(last.out) = 1
  /\ last.out[1].name = "latestComponentExplorerView"
  /\ DOMAIN last.out[1].payload = fields
  /\ Elements(last.out[1].payload.forest) = Elements(indexedForest)

\* C5 as stated: every getLatestComponentExplorerView command is answered
\* with one latestComponentExplorerView: the forest alone without a query,
\* the forest and the properties with any query.
C5_AlwaysAnswered ==
  SnapshotTaken =>
    IF last.arg.query = None
      THEN OneViewWith({"forest"})
      ELSE OneViewWith({"forest", "properties"})

\* C5, amended: a command without a query is answered with the forest alone
\* (an empty forest gives an empty list); a command with a query is answered
\* with the forest and the properties of the queried node when the queried
\* element resolves to a node of the forest, and is not answered at all when
\* it resolves to none.
C5_AnsweredWhenResolved ==
  SnapshotTaken =>
    IF last.arg.query = None
      THEN /\ OneViewWith({"forest"})
           /\ indexedForest = <<>> => last.out[1].payload.forest = <<>>
      ELSE IF QueryResolves
        THEN OneViewWith({"forest", "properties"})
        ELSE last.out = <<>>

\* A snapshot command whose query names an element that is not in a non-empty
\* forest: serialization ran and nothing was sent.
C5_Witness ==
  /\ SnapshotTaken
  /\ last.arg.query # None
  /\ indexedForest # <<>>
  /\ regLog # <<>>
  /\ ~QueryResolves
  /\ last.out = <<>>

\* ------------------------------------------------------------------ C6 and C7

NestedAsked == last.cmd = "getNestedProperties"

\* The component or directive that the last getNestedProperties addressed,
\* if the position resolves to one.
NestedTarget ==
  LET node == queryDirectiveForest(last.arg.position.element, indexedForest)
  IN IF node = None THEN None ELSE CurrentOf(node[1], last.arg.position)

\* Some prefix of the path leads to nothing on the instance.
MissingSegment(instance, propPath) ==
  \E i \in 1..Len(propPath) :
    SubSeq(propPath, 1, i) \notin ObjectPaths(instance) \cup PrimitivePaths(instance)

\* The last step emitted exactly one nestedProperties with empty props, and
\* the position and path of the command.
OneEmptyProps ==
  /\ ~last.failed
  /\ Len(last.out) = 1
  /\ last.out[1].name = "nestedProperties"
  /\ last.out[1].payload =
       [position |-> last.arg.position, props |-> {}, propPath |-> last.arg.propPath]

\* C6: a getNestedProperties whose path has a segment, at any position, that
\* does not exist on the target instance emits one nestedProperties with
\* empty props and the position and path echoed, and the handler does not
\* fail.
C6_MissingSegmentEmpty ==
  (NestedAsked /\ NestedTarget # None)
    => (MissingSegment(NestedTarget[1].instance, last.arg.propPath) => OneEmptyProps)

\* ------------------------------------------------------------------ C7

\* C7: a getNestedProperties whose target is stale (no node at the position,
\* no component on the node when no directive index is given, no directive at
\* the index) emits one nestedProperties with empty props and the given
\* position and path, without reading any property.
C7_StaleTargetEmpty ==
  (NestedAsked /\ NestedTarget = None) => (OneEmptyProps /\ last.arg.reads = 0)

\* A node that is there but has no component, asked about without a
\* directive index.
C7_Witness ==
  /\ NestedAsked
  /\ queryDirectiveForest(last.arg.position.element, indexedForest) # None
  /\ last.arg.position.directive = None
  /\ NestedTarget = None
  /\ Len(last.out) = 1

\* ------------------------------------------------------------------ C8

IsChunk(k) == outbound[k].name = "sendProfilerChunk"
IsResults(k) == outbound[k].name = "profilerResults"

\* The position of the last profilerResults before position k, or 0.
SessionStart(k) ==
  IF \E j \in 1..(k - 1) : IsResults(j)
    THEN CHOOSE j \in 1..(k - 1) : IsResults(j) /\ \A i \in (j + 1)..(k - 1) : ~IsResults(i)
    ELSE 0

\* The frames of the chunks at positions a + 1 .. b - 1, in channel order.
FramesBetween(a, b) == [i \in 1..(b - a - 1) |-> outbound[a + i].payload.frame]

\* C8: while recording, each frame of the host yields one sendProfilerChunk
\* carrying it, in frame order; a frame while Idle yields nothing;
\* stopProfiling yields one profilerResults, which comes after the chunks of
\* its session and accounts for exactly those; chunks that no profilerResults
\* follows belong to the session that is still recording.
C8_ProfilerSession ==
  /\ last.cmd = "frame" =>
       IF last.arg.recording
         THEN /\ Len(last.out) = 1
              /\ last.out[1].name = "sendProfilerChunk"
              /\ last.out[1].payload.frame = last.arg.frame
         ELSE last.out = <<>>
  /\ last.cmd = "stopProfiling" =>
       /\ Len(last.out) = 1
       /\ last.out[1].name = "profilerResults"
  /\ last.cmd = "startProfiling" => last.out = <<>>
  /\ \A k \in 1..Len(outbound) :
       /\ IsChunk(k) \/ IsResults(k)
       /\ IsResults(k) =>
            outbound[k].payload.frames = FramesBetween(SessionStart(k), k)
  /\ \A k \in 1..Len(outbound), m \in 1..Len(outbound) :
       (k < m /\ IsChunk(k) /\ IsChunk(m)) =>
         outbound[k].payload.frame < outbound[m].payload.frame
  /\ LET open == SessionStart(Len(outbound) + 1)
     IN /\ FramesBetween(open, Len(outbound) + 1) = sessionFrames
        /\ open < Len(outbound) => recording

\* startProfiling, three frames, stopProfiling: three chunks and then one
\* profilerResults.
C8_Witness ==
  /\ last.cmd = "stopProfiling"
  /\ Len(outbound) = 4
  /\ \A k \in 1..3 : IsChunk(k) /\ outbound[k].payload.frame = k
  /\ IsResults(4)
  /\ outbound[4].payload.frames = <<1, 2, 3>>

\* ------------------------------------------------------------------ C9

ProvidersAsked == last.cmd = "getInjectorProviders"

\* C9: getInjectorProviders emits one latestInjectorProviders, echoing the
\* injector of the command and carrying one record per provider of the
\* registered injector in registration order, when the id is in
\* idToInjector; it emits nothing when the id is not there.
C9_ProvidersOrNothing ==
  ProvidersAsked =>
    IF last.arg.injector.id \in DOMAIN idToInjector
      THEN LET records == InjectorProviders(idToInjector[last.arg.injector.id])
           IN /\ Len(last.out) = 1
              /\ last.out[1].name = "latestInjectorProviders"
              /\ last.out[1].payload.injector = last.arg.injector
              /\ Len(last.out[1].payload.providers) = Len(records)
              /\ \A i \in DOMAIN records :
                   /\ last.out[1].payload.providers[i].token = records[i].token
                   /\ last.out[1].payload.providers[i].index = i - 1
      ELSE last.out = <<>>

\* An id sent in an earlier snapshot and reclaimed by the cleanup of a later
\* one is asked about: nothing is emitted.
C9_Witness ==
  /\ ProvidersAsked
  /\ last.arg.injector.id \in handedOut \ DOMAIN idToInjector
  /\ last.out = <<>>

\* ------------------------------------------------------------------ C10

GcPasses == {i \in DOMAIN regLog : regLog[i].op = "gc"}

\* C10 as stated: in every snapshot the cleanup runs exactly once, before any
\* id lookup or allocation of the serialization.
C10_GcFirst ==
  SnapshotTaken => (Cardinality(GcPasses) = 1 /\ regLog[1].op = "gc")

\* C10, amended: in a snapshot taken with the DI debug APIs the cleanup runs
\* exactly once, after every id lookup and allocation of the serialization;
\* without the DI debug APIs it does not run and no injector id is looked up
\* or allocated.
C10_GcLast ==
  SnapshotTaken =>
    IF diDebug
      THEN GcPasses = {Len(regLog)}
      ELSE \A i \in DOMAIN regLog : regLog[i].kind # "injector"

\* A snapshot whose serialization allocated and looked up injector ids before
\* the cleanup ran.
C10_Witness ==
  /\ SnapshotTaken
  /\ diDebug
  /\ \E i \in DOMAIN regLog : regLog[i] = LogEntry("alloc", "injector")
  /\ \E i \in DOMAIN regLog : regLog[i] = LogEntry("lookup", "injector")
  /\ regLog[Len(regLog)].op = "gc"

\* ------------------------------------------------------------------ C11

RECURSIVE NodesOf(_)
\* The nodes of a forest, live or serialized.
NodesOf(forest) ==
  IF forest = <<>>
    THEN {}
    ELSE {Head(forest)} \cup NodesOf(Head(forest).children) \cup NodesOf(Tail(forest))

\* The <<instance, id>> pairs that a serialized forest carries for its
\* components and directives.
InstanceIds(forest) ==
  UNION {{<<n.component[i].name, n.component[i].id>> : i \in DOMAIN n.component}
           \cup {<<n.directives[i].name, n.directives[i].id>> : i \in DOMAIN n.directives} :
         n \in NodesOf(forest)}

\* The <<injector, id>> pairs that a serialized forest carries in its
\* resolution paths.
InjectorIds(forest) ==
  UNION {IF "resolutionPath" \in DOMAIN n
           THEN {<<n.resolutionPath[i].name, n.resolutionPath[i].id>> :
                   i \in DOMAIN n.resolutionPath}
           ELSE {} :
         n \in NodesOf(forest)}

\* One id per owner and one owner per id, over the pairs of two snapshots.
SameIds(before, after) ==
  \A p \in before, q \in after : (p[1] = q[1]) <=> (p[2] = q[2])

\* Within the last snapshot ids are unique, and the registry still holds the
\* entry of every injector the snapshot showed.
IdsConsistent ==
  /\ SameIds(InstanceIds(lastSerialized), InstanceIds(lastSerialized))
  /\ SameIds(InjectorIds(lastSerialized), InjectorIds(lastSerialized))
  /\ \A p \in InjectorIds(lastSerialized) :
       p[2] \in DOMAIN idToInjector /\ idToInjector[p[2]] = p[1]

\* From one snapshot to the next an owner serialized in both keeps its id, no
\* id changes its owner, and an injector that was not registered is given an
\* id that was not in the registry.
IdsStableStep ==
  /\ SameIds(InstanceIds(lastSerialized), InstanceIds(lastSerialized'))
  /\ SameIds(InjectorIds(lastSerialized), InjectorIds(lastSerialized'))
  /\ \A q \in InjectorIds(lastSerialized') :
       q[1] \notin Range(idToInjector) => q[2] \notin DOMAIN idToInjector

\* C11: an instance or injector reachable in two consecutive snapshots has
\* the same id in both and its registry entry survives the cleanup between
\* them, no two of them share an id within a snapshot, and an id goes to
\* another owner only after it has been reclaimed.
C11_IdStability == []IdsConsistent /\ [][IdsStableStep]_vars

\* The single root serialized right after the wide forest: its injectors keep
\* the ids 1 and 2 they were given there, and the ids of the injectors that
\* are gone were reclaimed.
C11_Witness ==
  /\ indexedForest = ForestSingle
  /\ InjectorIds(lastSerialized) = {<<"ne1", 1>>, <<"envRoot", 2>>}
  /\ DOMAIN idToInjector = {1, 2}
  /\ 0 \in handedOut

\* ------------------------------------------------------------------ C12

RECURSIVE NodePairs(_, _)
\* The nodes of a live forest, each with the serialized node at the same
\* position.
NodePairs(live, serialized) ==
  IF live = <<>> \/ serialized = <<>>
    THEN {}
    ELSE {<<Head(live), Head(serialized)>>}
           \cup NodePairs(Head(live).children, Head(serialized).children)
           \cup NodePairs(Tail(live), Tail(serialized))

\* The nodes of the last snapshot when it included resolution paths.
PathPairs == IF diDebug THEN NodePairs(indexedForest, lastSerialized) ELSE {}

EndsAtEnvironment(path) == path # <<>> /\ path[Len(path)].type = "environment"

StartsAt(path, injector) ==
  path # <<>> /\ path[1].name = injector /\ path[1].type = "element"

\* C12 as stated: with resolution paths included, a node without an owning
\* element injector has the empty path, and a node with one has a non-empty
\* path that starts with that injector and ends with an environment injector.
C12_PathEndpoints ==
  \A p \in PathPairs :
    IF p[1].nativeInjector = None
      THEN p[2].resolutionPath = <<>>
      ELSE /\ StartsAt(p[2].resolutionPath, p[1].nativeInjector[1])
           /\ EndsAtEnvironment(p[2].resolutionPath)

\* C12, amended: a node without an owning element injector has the empty
\* path; the path of a node with one starts with that injector when its
\* serialization is not null, and ends with the root of its chain, an
\* environment injector, when the root's serialization is not null.
C12_PathEndpointsWhenSerializable ==
  \A p \in PathPairs :
    IF p[1].nativeInjector = None
      THEN p[2].resolutionPath = <<>>
      ELSE LET owner == p[1].nativeInjector[1]
               chain == getInjectorResolutionPath(owner)
               root == chain[Len(chain)]
           IN /\ owner \notin Unnamed => StartsAt(p[2].resolutionPath, owner)
              /\ root \notin Unnamed =>
                   /\ EndsAtEnvironment(p[2].resolutionPath)
                   /\ p[2].resolutionPath[Len(p[2].resolutionPath)].name = root

\* A snapshot of the wide forest: a node without an injector, a node whose
\* path starts with its own injector, and a node whose own injector has no
\* serialization, so that its path starts further up.
C12_Witness ==
  /\ \E p \in PathPairs : p[1].nativeInjector = None /\ p[2].resolutionPath = <<>>
  /\ \E p \in PathPairs : p[1].nativeInjector = Some("ne2") /\ StartsAt(p[2].resolutionPath, "ne2")
  /\ \E p \in PathPairs :
       /\ p[1].nativeInjector = Some("ne3")
       /\ p[2].resolutionPath # <<>>
       /\ p[2].resolutionPath[1].name = "envLazy"

\* ------------------------------------------------------------------ C13

RECURSIVE Shape(_)
\* A forest, live or serialized, reduced to its elements, the components on
\* them, the number of their directives, and the parent/child relation in
\* child order.
Shape(forest) ==
  [i \in DOMAIN forest |->
     <<forest[i].element,
       IF forest[i].component = None THEN None ELSE Some(forest[i].component[1].name),
       Len(forest[i].directives),
       Shape(forest[i].children)>>]

RECURSIVE Depth(_)
Depth(forest) ==
  IF forest = <<>>
    THEN 0
    ELSE LET below == 1 + Depth(Head(forest).children)
             beside == Depth(Tail(forest))
         IN IF below > beside THEN below ELSE beside

\* C13: the serialized forest has one node per source node, in the same
\* parent/child relation and child order, with or without resolution paths;
\* a node without an owning injector is there, and so are its children.
C13_ShapePreserved ==
  /\ Shape(lastSerialized) = Shape(indexedForest)
  /\ NodeCount(lastSerialized) = NodeCount(indexedForest)
  /\ Depth(lastSerialized) = Depth(indexedForest)
  /\ \A n \in NodesOf(lastSerialized) : ("resolutionPath" \in DOMAIN n) <=> diDebug

\* A snapshot with resolution paths of a plain element that has a component
\* below it: both nodes are in the serialized forest, parent above child.
C13_Witness ==
  /\ SnapshotTaken
  /\ diDebug
  /\ Len(lastSerialized) = 1
  /\ lastSerialized[1].element = "div"
  /\ lastSerialized[1].resolutionPath = <<>>
  /\ Len(lastSerialized[1].children) = 1
  /\ lastSerialized[1].children[1].component # None

\* ------------------------------------------------------------------ C14

\* The event names paired with a command; a profiler frame runs the callback
\* that startProfiling installed.
PairedEvents(cmd) ==
  CASE cmd = "getLatestComponentExplorerView" -> {"latestComponentExplorerView"}
    [] cmd = "queryNgAvailability" -> {"ngAvailability"}
    [] cmd = "startProfiling" -> {"sendProfilerChunk"}
    [] cmd = "frame" -> {"sendProfilerChunk"}
    [] cmd = "stopProfiling" -> {"profilerResults"}
    [] cmd = "getNestedProperties" -> {"nestedProperties"}
    [] cmd = "getRoutes" -> {"updateRouterTree"}
    [] cmd = "getInjectorProviders" -> {"latestInjectorProviders"}
    [] OTHER -> {}

\* The events that a step puts on the channel have a name paired with the
\* command of the step.
PairedStep ==
  \A k \in (Len(outbound) + 1)..Len(outbound') :
    outbound'[k].name \in PairedEvents(last'.cmd)

\* getRoutes answers with one empty router tree; setSelectedComponent and
\* logProvider emit nothing.
SideCommandsQuiet ==
  /\ last.cmd = "getRoutes" =>
       /\ Len(last.out) = 1
       /\ last.out[1].name = "updateRouterTree"
       /\ last.out[1].payload.routes = <<>>
  /\ last.cmd \in {"setSelectedComponent", "logProvider"} => last.out = <<>>
  /\ \A k \in DOMAIN outbound :
       outbound[k].name \in UNION {PairedEvents(c) : c \in BaseCommands}

\* C14: the handler of each command emits only events of its paired name;
\* getRoutes always emits updateRouterTree with an empty sequence;
\* setSelectedComponent and logProvider emit nothing.
C14_CommandEventPairing == []SideCommandsQuiet /\ [][PairedStep]_vars

\* The answers to getRoutes, queryNgAvailability, a profiler frame and
\* stopProfiling on the channel, one after the other.
C14_Witness ==
  /\ Len(outbound) = 4
  /\ [k \in 1..4 |-> outbound[k].name] =
       <<"updateRouterTree", "ngAvailability", "sendProfilerChunk", "profilerResults">>

\* ------------------------------------------------------------------ C15

\* C15: a step of any handler other than getLatestComponentExplorerView
\* leaves idToInjector and injectorsSeen as they are, whether or not the
\* target it was asked about exists.
C15_RegistryDiscipline ==
  [][last'.cmd # "getLatestComponentExplorerView"
       => (idToInjector' = idToInjector /\ injectorsSeen' = injectorsSeen)]_vars

\* A getInjectorProviders that found its injector in a registry that a
\* snapshot had filled.
C15_Witness ==
  /\ last.cmd = "getInjectorProviders"
  /\ last.arg.injector.id \in DOMAIN idToInjector
  /\ Len(last.out) = 1
  /\ injectorsSeen = {}

\* ------------------------------------------------------------------ C16

\* A step of the getLatestComponentExplorerView handler: it runs on the idle
\* channel and leaves the host alone.
SnapshotStep ==
  /\ last'.cmd = "getLatestComponentExplorerView"
  /\ outbound = <<>>
  /\ liveForest' = liveForest

\* C16: a getLatestComponentExplorerView serializes, and emits, the forest
\* of the host as it is when the command is handled, whatever forest was
\* indexed before and without any change-detection signal.
C16_RefreshReindexes ==
  [][IF SnapshotStep
       THEN /\ indexedForest' = liveForest
            /\ Shape(lastSerialized') = Shape(liveForest)
            /\ \A k \in DOMAIN outbound' : outbound'[k].payload.forest = lastSerialized'
       ELSE TRUE]_vars

\* The single root, serialized and sent after the host went there from the
\* wide forest, whose instances still have their ids; no change-detection
\* signal was delivered.
C16_Witness ==
  /\ SnapshotTaken
  /\ signals = <<>>
  /\ "List" \in DOMAIN directiveIds
  /\ liveForest = ForestSingle
  /\ Shape(lastSerialized) = Shape(ForestSingle)
  /\ Len(last.out) = 1
  /\ last.out[1].payload.forest = lastSerialized

\* ------------------------------------------------------------------ C17

Serializable(injector) == injector \notin Unnamed

\* The injectors of a serialized path, in path order.
PathNames(path) == [i \in DOMAIN path |-> path[i].name]

\* C17: the path of a node with an owning injector is its resolution chain,
\* nearest first, without exactly the injectors whose serialization is
\* null, each entry with the kind and the registered id of its injector; a
\* node without an owning injector has the empty path, and no other node
\* loses its path for that.
C17_InjectorLevelSkip ==
  \A p \in PathPairs :
    IF p[1].nativeInjector = None
      THEN p[2].resolutionPath = <<>>
      ELSE LET path == p[2].resolutionPath
           IN /\ PathNames(path) =
                   SelectSeq(getInjectorResolutionPath(p[1].nativeInjector[1]), Serializable)
              /\ \A i \in DOMAIN path :
                   /\ (path[i].type = "element") <=> isElementInjector(path[i].name)
                   /\ path[i].id \in DOMAIN idToInjector
                   /\ idToInjector[path[i].id] = path[i].name

\* A chain of four injectors of which the first and the third have no
\* serialization: the path is the second and the fourth, below a plain
\* element whose own path is empty.
C17_Witness ==
  \E p \in PathPairs, q \in PathPairs :
    /\ p[1].nativeInjector = None
    /\ p[2].resolutionPath = <<>>
    /\ q[2] \in NodesOf(p[2].children)
    /\ getInjectorResolutionPath(q[1].nativeInjector[1]) = <<"ne3", "envLazy", "envAnon", "envRoot">>
    /\ PathNames(q[2].resolutionPath) = <<"envLazy", "envRoot">>

\* ------------------------------------------------------------------ C18

\* The events that only the readiness branch of lines 48-59 can cause.
ReadinessEvents ==
  {"componentTreeDirty", "highlightComponent", "removeComponentHighlight", "selectComponent"}

\* What is installed is what the readiness test of line 48 found when
\* subscribeToClientEvents ran, and nothing is installed before it runs.
InstalledAsSampled ==
  IF subscribed
    THEN /\ inspectorInstalled = readyAtSubscribe
         /\ notifierInstalled = readyAtSubscribe
         /\ (InspectorCommands \subseteq handlers) = readyAtSubscribe
         /\ (InspectorCommands \cap handlers # {}) = readyAtSubscribe
    ELSE /\ ~inspectorInstalled
         /\ ~notifierInstalled
         /\ handlers = {}

\* A subscription made while the application was not ready never emits a
\* readiness event, opens no debounce window and hears no signal.
QuietWhenNotReady ==
  (subscribed /\ ~readyAtSubscribe) =>
    /\ \A k \in DOMAIN outbound : outbound[k].name \notin ReadinessEvents
    /\ debounceDue = NoTimer
    /\ \A k \in DOMAIN signals : ~signals[k].heard

\* C18: readiness is sampled once. The inspector handlers and the change
\* notifier subscription are installed if and only if the three readiness
\* conditions held when subscribeToClientEvents ran; if one was false then,
\* no componentTreeDirty, highlightComponent, removeComponentHighlight or
\* selectComponent is ever emitted, even after the application became ready
\* and a queryNgAvailability reported it.
C18_ReadinessSampledOnce == InstalledAsSampled /\ QuietWhenNotReady

\* The application became ready after the subscription, an availability
\* request reported it, change detection ran and a debounce window passed:
\* nothing but the availability report was emitted.
C18_Witness ==
  /\ subscribed
  /\ ~readyAtSubscribe
  /\ Ready
  /\ \E k \in DOMAIN outbound :
       /\ outbound[k].name = "ngAvailability"
       /\ outbound[k].payload.devMode
       /\ outbound[k].payload.ivy
  /\ \E k \in DOMAIN signals : now >= signals[k].at + DebounceMs
  /\ \A k \in DOMAIN outbound : outbound[k].name = "ngAvailability"

\* ------------------------------------------------------------------ C19

\* The registry after a snapshot taken with the DI debug APIs: the seen-set
\* is empty, the map holds exactly the ids the serialization saw, and every
\* id the serialized forest carries is one of them.
RegistryCollected(seen) ==
  /\ injectorsSeen' = {}
  /\ DOMAIN idToInjector' = seen
  /\ InjectorIdsIn(lastSerialized') \subseteq seen

\* C19: after a getLatestComponentExplorerView with the DI debug APIs the
\* seen-set is empty and the id-to-injector map contains exactly the ids
\* that were in the seen-set when the serialization ended; without the DI
\* debug APIs the command changes neither the map nor the seen-set.
C19_RegistryAfterSnapshot ==
  [][SnapshotStep =>
       IF diDebug
         THEN RegistryCollected(last'.arg.seen)
         ELSE /\ idToInjector' = idToInjector
              /\ injectorsSeen' = injectorsSeen]_vars

\* A snapshot that saw some ids and not others: an id of the map was not
\* seen and is gone, an id that was seen is kept, and the seen-set is empty.
C19_Witness ==
  /\ SnapshotTaken
  /\ diDebug
  /\ last.arg.seen # {}
  /\ handedOut \ last.arg.seen # {}
  /\ DOMAIN idToInjector = last.arg.seen
  /\ injectorsSeen = {}

\* ------------------------------------------------------------------ C20

\* The ngAvailability events emitted so far.
NgEvents == {i \in DOMAIN outbound : outbound[i].name = "ngAvailability"}

\* The requests whose retry timer is pending.
PendingChains == {r \in DOMAIN probeDue : probeDue[r] # NoTimer}

\* While the version is undetectable every request made so far has its own
\* pending timer and nothing was emitted; at any time there is one event per
\* request that has no timer pending.
ChainPerRequest ==
  /\ ~verDetectable => (PendingChains = DOMAIN probeDue /\ NgEvents = {})
  /\ Cardinality(NgEvents) + Cardinality(PendingChains) = Len(probeDue)

\* A step runs checkForAngular for one request only, and leaves the timers
\* and the counts of the other requests as they are.
ChainsIndependent ==
  \A r \in DOMAIN probeDue, q \in DOMAIN probeDue :
    (r # q /\ ProbeRan(r)) => ~ProbeRan(q)

\* Every pending retry falls within the modelled time.
ChainsWithinTime == \A r \in PendingChains : probeDue[r] <= MaxTime

\* No timer is pending and there is one ngAvailability per request.
ChainsSettled ==
  /\ PendingChains = {}
  /\ Cardinality(NgEvents) = Len(probeDue)

\* C20: queryNgAvailability requests are not deduplicated. k requests made
\* while the version is undetectable start k retry chains that run
\* independently; once the version is detectable exactly k ngAvailability
\* events are emitted, one per request, and no retry timer remains pending.
C20_IndependentChains ==
  /\ []ChainPerRequest
  /\ [][ChainsIndependent]_vars
  /\ ((verDetectable /\ ChainsWithinTime) ~> ChainsSettled)

\* Two requests made at the same instant while the version was undetectable
\* waited on two timers due at the same time; both retries ran and each
\* emitted its own ngAvailability.
C20_Witness ==
  /\ Len(probeDue) = 2
  /\ ChainsSettled
  /\ Len(outbound) = 2
  /\ \A i \in DOMAIN outbound : outbound[i].at = RetryMs
  /\ last.cmd = "probeRetry"

====
